---- MODULE Spec2Model ----
(***************************************************************************)
(* Room membership and message fan-out of the chat server (src/server.js). *)
(*                                                                         *)
(* The state is the three in-memory maps of the server (users, rooms,      *)
(* messages), the socket.io room table that socket.join fills, the         *)
(* transport state of each socket and the uuid source.  Every socket.on    *)
(* handler is one action: node runs a handler to completion before it      *)
(* starts the next one.  A handler is written as one operator from the     *)
(* state and the event's payload to the state it leaves and the events it  *)
(* emits (field out), and the action applies it.                           *)
(*                                                                         *)
(* Strings are held run-length encoded: a string is a sequence of runs     *)
(* [ch, n], n >= 1, standing for n copies of the character ch.  Length     *)
(* and trim are computed on that encoding as String.prototype.length and   *)
(* String.prototype.trim compute them on the characters.  Timestamps       *)
(* (moment().format) are left out of the message records: no handler       *)
(* reads them.  uuidv4() is a counter: every id it returns is new.         *)
(*                                                                         *)
(* Of socket.io the model keeps what the handlers use: socket.join(room)   *)
(* adds the socket to the room and nothing removes it while the socket is  *)
(* open; io.to(room) reaches every socket in the room and socket.to(room)  *)
(* every one but the socket itself; a socket has left all its rooms when   *)
(* its 'disconnect' handler runs.  Payload fields are strings or missing,  *)
(* and no room is named like a socket id (the room each socket is in by    *)
(* itself).                                                                *)
(***************************************************************************)
EXTENDS Integers, Sequences, FiniteSets, TLC

\* ------------------------------------------------------------------ bounds
\* Messages appended over all rooms in one behaviour.
MaxLog == 3

\* ------------------------------------------------------- program constants
MAX_MESSAGE_LENGTH == 1000
MAX_USERNAME_LENGTH == 20

\* ------------------------------------------------------------ the universe
\* Socket ids (socket.id) of the connections of one behaviour.  The ids are
\* opaque and the handlers treat every socket alike, so the sockets are named
\* in the order in which they first join a room.
ConnOrder == <<"s1", "s2", "s3">>

Conns == {ConnOrder[i] : i \in DOMAIN ConnOrder}

\* JavaScript's undefined, as a value and as a payload field that the client
\* did not send (a string that no sequence of runs equals).
UndefinedValue == [undefined |-> TRUE]
Undefined == <<UndefinedValue>>

\* ---------------------------------------------------------------- strings
Run(ch, n) == <<[ch |-> ch, n |-> n]>>

EmptyStr == <<>>

RECURSIVE StrLen(_)
StrLen(s) == IF s = <<>> THEN 0 ELSE Head(s).n + StrLen(Tail(s))

IsSpace(ch) == ch = " "

\* String.prototype.trim: drops the leading and the trailing whitespace.
Trim(s) ==
  LET solid == {i \in 1..Len(s) : ~IsSpace(s[i].ch)}
  IN  IF solid = {} THEN EmptyStr
      ELSE LET lo == CHOOSE i \in solid : \A j \in solid : i <= j
               hi == CHOOSE i \in solid : \A j \in solid : j <= i
           IN  SubSeq(s, lo, hi)

\* JavaScript's !x for a value that is a string or undefined.
Falsy(x) == x = Undefined \/ x = EmptyStr

\* ------------------------------------------------------------------ inputs
Room1 == Run("r", 1) \o Run("1", 1)
Room2 == Run("r", 1) \o Run("2", 1)

RoomNames == {Room1, Room2}

RoomInputs == RoomNames \cup {Undefined, EmptyStr}

Name20 == Run("a", MAX_USERNAME_LENGTH)
Name21 == Run("a", MAX_USERNAME_LENGTH + 1)
NameBlank == Run(" ", 2)

UsernameInputs == {Undefined, EmptyStr, Name20, Name21, NameBlank}

Text1000 == Run("x", MAX_MESSAGE_LENGTH)
Text1001 == Run("x", MAX_MESSAGE_LENGTH + 1)
TextPadded1000 == Run(" ", 1) \o Run("x", MAX_MESSAGE_LENGTH)
TextBlank == Run(" ", 2)
TextHi == Run(" ", 1) \o Run("h", 1) \o Run("i", 1) \o Run(" ", 2)

MessageInputs ==
  {Undefined, EmptyStr, TextBlank, TextHi, Text1000, Text1001, TextPadded1000}

\* ------------------------------------------------------------------- state
VARIABLES
  sockets,    \* socket id -> "open" | "closed" (the transport)
  users,      \* Map users: socket id -> user object
  rooms,      \* Map rooms: room -> Set of socket ids, in insertion order
  messages,   \* Map messages: room -> array of messages
  adapter,    \* socket.io's rooms: room -> sockets that socket.join'ed it
  nextId,     \* the next value uuidv4() returns
  history     \* observer: per room, the operations accepted so far, in order

vars == <<sockets, users, rooms, messages, adapter, nextId, history>>

\* The reserved author { username: 'System', id: 'system' }; the id that no
\* uuid equals is held as 0.
SystemName == Run("System", 1)
SystemUser == [username |-> SystemName, id |-> 0]

JoinedSuffix == Run(" has joined the room", 1)
LeftSuffix == Run(" has left the room", 1)

ErrRequired == "Username and room are required"
ErrNameTooLong == "Username too long (max 20 chars)"
ErrNoUser == "User not found"
ErrEmpty == "Message cannot be empty"
ErrTooLong == "Message too long (max 1000 chars)"
ErrSendFailed == "Failed to send message"

\* One emit call: the event, the sockets it reaches, its payload.
Emit(type, to, data) == [type |-> type, to |-> to, data |-> data]

\* io.emit in place of socket.emit.
EmitError_ToAll(s, text) == Emit("error", Conns, [message |-> text])

\* socket.emit('error', { message }): to the socket of the handler alone.
EmitError(s, text) == Emit("error", {s}, [message |-> text])

\* The sockets in a socket.io room of table a; a room nobody joined is empty.
InRoom(a, room) == IF room \in DOMAIN a THEN a[room] ELSE {}

\* Map.prototype.has, get, set and delete.
Has(map, key) == key \in DOMAIN map

Get(map, key) == IF key \in DOMAIN map THEN map[key] ELSE UndefinedValue

Put(map, key, val) ==
  [k \in DOMAIN map \cup {key} |-> IF k = key THEN val ELSE map[k]]

\* A delete that is forgotten.
Delete_Kept(map, key) == map

Delete(map, key) == [k \in DOMAIN map \ {key} |-> map[k]]

SeqHas(seq, x) == \E i \in 1..Len(seq) : seq[i] = x

\* rooms.set(room, new Set([id])) on every join.
SetAdd_Replace(seq, x) == <<x>>

\* Set.prototype.add keeps the insertion order and adds no duplicate.
SetAdd(seq, x) == IF SeqHas(seq, x) THEN seq ELSE Append(seq, x)

\* A member that is never removed.
SetDelete_Kept(seq, x) == seq

\* Set.prototype.delete.
SetDelete(seq, x) == SelectSeq(seq, LAMBDA y : y # x)

\* unshift in place of push.
Push_Front(map, room, msg) == [map EXCEPT ![room] = <<msg>> \o @]

\* messages.set(room, [msg]) in place of the push.
Push_Replace(map, room, msg) == [map EXCEPT ![room] = <<msg>>]

\* Array.prototype.push on messages.get(room).
Push(map, room, msg) == [map EXCEPT ![room] = Append(@, msg)]

RECURSIVE SumLen(_, _)
SumLen(map, keys) ==
  IF keys = {} THEN 0
  ELSE LET k == CHOOSE k \in keys : TRUE
       IN  Len(map[k]) + SumLen(map, keys \ {k})

TotalLog(map) == SumLen(map, DOMAIN map)

\* The state a handler leaves, with the events it emitted.
Here ==
  [sockets |-> sockets, users |-> users, rooms |-> rooms,
   messages |-> messages, adapter |-> adapter, nextId |-> nextId, out |-> <<>>]

\* An early return after socket.emit('error', ...): nothing is written.
Reject(s, text) == [Here EXCEPT !.out = <<EmitError(s, text)>>]

\* The state once the clients of the behaviour have connected:
\* io.on('connection') has registered the handlers of every socket.
Init ==
  /\ sockets = [s \in Conns |-> "open"]
  /\ users = <<>>
  /\ rooms = <<>>
  /\ messages = <<>>
  /\ adapter = [r \in RoomNames |-> {}]
  /\ nextId = 1
  /\ history = [r \in RoomNames |-> <<>>]

JoinUser(s, username, room) ==
  [id |-> nextId, username |-> username, room |-> room, socketId |-> s]

WelcomeMessage(username) ==
  [id |-> nextId + 1, user |-> SystemUser,
   text |-> username \o JoinedSuffix, type |-> "system"]

\* The 'joined' payload; users is Array.from(rooms.get(room)).map(users.get).
JoinedData(user, room, log, members, registry) ==
  [user |-> user, room |-> room, messages |-> log,
   users |-> [i \in 1..Len(members) |-> Get(registry, members[i])]]

\* >= in place of >.
NameTooLong_AtLimit(username) == StrLen(username) >= MAX_USERNAME_LENGTH

\* username.length > 20
NameTooLong(username) == StrLen(username) > MAX_USERNAME_LENGTH

\* socket.on('join')
JoinStep(s, username, room) ==
  IF Falsy(username) \/ Falsy(room) THEN Reject(s, ErrRequired)
  ELSE IF NameTooLong(username) THEN Reject(s, ErrNameTooLong)
  ELSE
    LET user == JoinUser(s, username, room)
        users1 == Put(users, s, user)
        rooms1 == Put(rooms, room,
                      SetAdd(IF Has(rooms, room) THEN rooms[room] ELSE <<>>, s))
        messages1 == IF Has(messages, room) THEN messages
                     ELSE Put(messages, room, <<>>)
        adapter1 == [adapter EXCEPT ![room] = @ \cup {s}]
        messages2 == Push(messages1, room, WelcomeMessage(username))
    IN  [sockets |-> sockets, users |-> users1, rooms |-> rooms1,
         messages |-> messages2, adapter |-> adapter1, nextId |-> nextId + 2,
         out |-> <<Emit("joined", {s},
                        JoinedData(user, room, messages2[room], rooms1[room],
                                   users1)),
                   Emit("userJoined", InRoom(adapter1, room) \ {s},
                        [user |-> user, message |-> WelcomeMessage(username)])>>]

ChatMessageOf(user, message) ==
  [id |-> nextId,
   user |-> [id |-> user.id, username |-> user.username],
   text |-> Trim(message), type |-> "message"]

\* >= in place of >.
MessageTooLong_AtLimit(message) == StrLen(message) >= MAX_MESSAGE_LENGTH

\* message.length > MAX_MESSAGE_LENGTH
MessageTooLong(message) == StrLen(message) > MAX_MESSAGE_LENGTH

\* The log of an unknown room is created on the first send to it.
ChatMessageStep_CreatesLog(s, message, room) ==
  IF ~Has(users, s) THEN Reject(s, ErrNoUser)
  ELSE IF Falsy(message) \/ Trim(message) = EmptyStr THEN Reject(s, ErrEmpty)
  ELSE IF MessageTooLong(message) THEN Reject(s, ErrTooLong)
  ELSE [Here EXCEPT
          !.messages = Push(IF Has(messages, room) THEN messages
                            ELSE Put(messages, room, <<>>),
                            room, ChatMessageOf(users[s], message)),
          !.nextId = nextId + 1,
          !.out = <<Emit("newMessage", InRoom(adapter, room),
                         ChatMessageOf(users[s], message))>>]

\* socket.on('chatMessage')
ChatMessageStep(s, message, room) ==
  IF ~Has(users, s) THEN Reject(s, ErrNoUser)
  ELSE IF Falsy(message) \/ Trim(message) = EmptyStr THEN Reject(s, ErrEmpty)
  ELSE IF MessageTooLong(message) THEN Reject(s, ErrTooLong)
  \* messages.get(room) is undefined: push throws and the catch reports it.
  \* The id drawn for the discarded message is never stored nor sent.
  ELSE IF ~Has(messages, room) THEN Reject(s, ErrSendFailed)
  ELSE [Here EXCEPT
          !.messages = Push(messages, room, ChatMessageOf(users[s], message)),
          !.nextId = nextId + 1,
          !.out = <<Emit("newMessage", InRoom(adapter, room),
                         ChatMessageOf(users[s], message))>>]

\* io.to(room) in place of socket.to(room).
TypingStep_Echo(s, room, isTyping) ==
  IF Has(users, s)
  THEN [Here EXCEPT
          !.out = <<Emit("userTyping", InRoom(adapter, room),
                         [userId |-> users[s].id,
                          username |-> users[s].username,
                          isTyping |-> isTyping])>>]
  ELSE Here

\* socket.on('typing')
TypingStep(s, room, isTyping) ==
  IF Has(users, s)
  THEN [Here EXCEPT
          !.out = <<Emit("userTyping", InRoom(adapter, room) \ {s},
                         [userId |-> users[s].id,
                          username |-> users[s].username,
                          isTyping |-> isTyping])>>]
  ELSE Here

LeaveMessage(user) ==
  [id |-> nextId, user |-> SystemUser,
   text |-> user.username \o LeftSuffix, type |-> "system"]

\* The socket.io room table after the socket has left every room, as it has
\* when the 'disconnect' handlers run.
LeaveAll(s) == [r \in DOMAIN adapter |-> adapter[r] \ {s}]

\* rooms.delete(room) once the member set is empty, the log left in place.
DisconnectStep_DropsEmptyRoom(s) ==
  LET closed == [Here EXCEPT !.sockets = [sockets EXCEPT ![s] = "closed"],
                             !.adapter = LeaveAll(s)]
  IN  IF Has(users, s)
      THEN LET user == users[s]
               room == user.room
           IN  IF Has(rooms, room) /\ SeqHas(rooms[room], s)
               THEN [closed EXCEPT
                       !.rooms = IF SetDelete(rooms[room], s) = <<>>
                                 THEN Delete(rooms, room)
                                 ELSE [rooms EXCEPT ![room] = SetDelete(@, s)],
                       !.messages = Push(messages, room, LeaveMessage(user)),
                       !.nextId = nextId + 1,
                       !.out = <<Emit("userLeft", InRoom(LeaveAll(s), room) \ {s},
                                      [userId |-> user.id,
                                       username |-> user.username,
                                       message |-> LeaveMessage(user)])>>,
                       !.users = Delete(users, s)]
               ELSE [closed EXCEPT !.users = Delete(users, s)]
      ELSE closed

\* socket.on('disconnect')
DisconnectStep(s) ==
  LET closed == [Here EXCEPT !.sockets = [sockets EXCEPT ![s] = "closed"],
                             !.adapter = LeaveAll(s)]
  IN  IF Has(users, s)
      THEN LET user == users[s]
               room == user.room
           IN  IF Has(rooms, room) /\ SeqHas(rooms[room], s)
               THEN [closed EXCEPT
                       !.rooms = [rooms EXCEPT ![room] = SetDelete(@, s)],
                       !.messages = Push(messages, room, LeaveMessage(user)),
                       !.nextId = nextId + 1,
                       !.out = <<Emit("userLeft", InRoom(LeaveAll(s), room) \ {s},
                                      [userId |-> user.id,
                                       username |-> user.username,
                                       message |-> LeaveMessage(user)])>>,
                       !.users = Delete(users, s)]
               ELSE [closed EXCEPT !.users = Delete(users, s)]
      ELSE closed

\* res.json(body): the response goes to the HTTP client, to no socket.
Respond(status, body) ==
  [type |-> "response", to |-> {}, data |-> [status |-> status, body |-> body]]

\* Array.from(rooms.keys()).map(room => ({ name, userCount })), as the set of
\* its entries.
RoomList(directory) ==
  {[name |-> r, userCount |-> Len(directory[r])] : r \in DOMAIN directory}

\* app.get('/api/rooms')
GetRoomsStep ==
  [Here EXCEPT !.out = <<Respond(200, [success |-> TRUE,
                                       rooms |-> RoomList(rooms)])>>]

\* messages.set(room, []) for a room that has no log yet.
GetRoomMessagesStep_Creates(room) ==
  [Here EXCEPT
     !.messages = IF Has(messages, room) THEN messages
                  ELSE Put(messages, room, <<>>),
     !.out = <<Respond(200, [success |-> TRUE,
                             messages |-> IF Has(messages, room)
                                          THEN messages[room] ELSE <<>>])>>]

\* app.get('/api/rooms/:room/messages'); messages.get(room) || [].
GetRoomMessagesStep(room) ==
  [Here EXCEPT
     !.out = <<Respond(200, [success |-> TRUE,
                             messages |-> IF Has(messages, room)
                                          THEN messages[room] ELSE <<>>])>>]

\* ---------------------------------------------------------------- observer
\* What a client can tell of a handler's run from the events it emitted.
Emitted(n, type) == \E i \in 1..Len(n.out) : n.out[i].type = type

\* How many times the run n delivered an event of the type to socket c.
Times(n, type, c) ==
  Cardinality({i \in 1..Len(n.out) : n.out[i].type = type /\ c \in n.out[i].to})

\* The sockets that the run n delivered anything to.
Reached(n) == UNION {n.out[i].to : i \in 1..Len(n.out)}

\* The run n left the registry, every member set and every log as they were.
Same(n) == n.users = users /\ n.rooms = rooms /\ n.messages = messages

\* The run n emitted one error event, to socket s alone.
ErrorOnlyTo(n, s) ==
  Len(n.out) = 1 /\ n.out[1].type = "error" /\ n.out[1].to = {s}

Open == {s \in Conns : sockets[s] = "open"}

Note(room, entry) ==
  IF room \in DOMAIN history
  THEN [history EXCEPT ![room] = Append(@, entry)]
  ELSE history

\* Socket s has joined a room at some time.
HasJoined(s) ==
  \E r \in RoomNames :
    \E i \in DOMAIN history[r] :
      history[r][i].op = "join" /\ history[r][i].by = s

\* Every socket named before s has joined a room at some time.
InJoinOrder(s) ==
  \A i \in DOMAIN ConnOrder, j \in DOMAIN ConnOrder :
    (ConnOrder[j] = s /\ i < j) => HasJoined(ConnOrder[i])

\* ----------------------------------------------------------------- actions
\* The handler's result becomes the state; a behaviour appends at most
\* MaxLog messages.
Apply(n) ==
  /\ TotalLog(n.messages) <= MaxLog
  /\ sockets' = n.sockets
  /\ users' = n.users
  /\ rooms' = n.rooms
  /\ messages' = n.messages
  /\ adapter' = n.adapter
  /\ nextId' = n.nextId

Join(s, username, room) ==
  /\ sockets[s] = "open"
  /\ \E n \in {JoinStep(s, username, room)} :
       /\ Emitted(n, "joined") => InJoinOrder(s)
       /\ Apply(n)
       /\ history' = IF Emitted(n, "joined")
                     THEN Note(room, [op |-> "join", by |-> s, arg |-> username,
                                      who |-> username])
                     ELSE history

ChatMessage(s, message, room) ==
  /\ sockets[s] = "open"
  /\ \E n \in {ChatMessageStep(s, message, room)} :
       /\ Apply(n)
       /\ history' = IF Emitted(n, "newMessage")
                     THEN Note(room, [op |-> "send", by |-> s, arg |-> message,
                                      who |-> users[s].username])
                     ELSE history

Typing(s, room, isTyping) ==
  /\ sockets[s] = "open"
  /\ \E n \in {TypingStep(s, room, isTyping)} : Apply(n)
  /\ UNCHANGED history

\* The handler is also run for a socket that is closed already: a repeated
\* disconnect signal for the same connection.
Disconnect(s) ==
  /\ \E n \in {DisconnectStep(s)} : Apply(n)
  /\ history' = IF Has(users, s)
                THEN Note(users[s].room,
                          [op |-> "disconnect", by |-> s,
                           arg |-> users[s].username,
                           who |-> users[s].username])
                ELSE history

GetRooms ==
  /\ \E n \in {GetRoomsStep} : Apply(n)
  /\ UNCHANGED history

GetRoomMessages(room) ==
  /\ \E n \in {GetRoomMessagesStep(room)} : Apply(n)
  /\ UNCHANGED history

Next ==
  \/ \E s \in Conns, username \in UsernameInputs, room \in RoomInputs :
       Join(s, username, room)
  \/ \E s \in Conns, message \in MessageInputs, room \in RoomInputs :
       ChatMessage(s, message, room)
  \/ \E s \in Conns, room \in RoomInputs, isTyping \in BOOLEAN :
       Typing(s, room, isTyping)
  \/ \E s \in Conns : Disconnect(s)
  \/ GetRooms
  \/ \E room \in RoomNames : GetRoomMessages(room)

Spec == Init /\ [][Next]_vars

\* ------------------------------------------------------------------ claims
\* A log entry without its id: author, text and kind.
View(m) == [author |-> m.user.username, text |-> m.text, type |-> m.type]

LogView(room) ==
  IF Has(messages, room)
  THEN [i \in 1..Len(messages[room]) |-> View(messages[room][i])]
  ELSE <<>>

\* The entry an accepted operation is to append: the join and the leave
\* system messages, or the chat message of the sender with the trimmed text.
Expected(e) ==
  CASE e.op = "join" ->
         [author |-> SystemName, text |-> e.arg \o JoinedSuffix,
          type |-> "system"]
    [] e.op = "disconnect" ->
         [author |-> SystemName, text |-> e.arg \o LeftSuffix,
          type |-> "system"]
    [] e.op = "send" ->
         [author |-> e.who, text |-> Trim(e.arg), type |-> "message"]

\* C1: every room's log is, in acceptance order, one join system message per
\* accepted join, one chat message per accepted send and one leave system
\* message per disconnect that found a session; typing and rejected
\* operations add no entry.
C1_LogIsAcceptedOperations ==
  \A r \in RoomNames :
    LogView(r) = [i \in 1..Len(history[r]) |-> Expected(history[r][i])]

\* A room in which a join, a send and a disconnect were accepted in turn.
C1_Witness ==
  \E r \in RoomNames :
    /\ Len(history[r]) = 3
    /\ history[r][1].op = "join"
    /\ history[r][2].op = "send"
    /\ history[r][3].op = "disconnect"
    /\ Len(messages[r]) = 3

\* The sockets with a session whose room field is the room.
SessionsIn(registry, room) ==
  {c \in DOMAIN registry : registry[c].room = room}

\* The sockets in the member set of the room.
MembersOf(directory, room) ==
  IF Has(directory, room)
  THEN {directory[room][i] : i \in 1..Len(directory[room])}
  ELSE {}

\* The run n of the chatMessage handler appended a message to a log.
Appended(n) == n.messages # messages

\* C2: every accepted send delivers newMessage exactly once to the sender and
\* exactly once to every current member of the room it was appended to.
C2_SendReachesSenderAndMembers ==
  \A s \in Open, m \in MessageInputs, r \in RoomInputs :
    LET n == ChatMessageStep(s, m, r)
    IN  Appended(n) =>
          /\ Times(n, "newMessage", s) = 1
          /\ \A c \in (MembersOf(rooms, r) \cup SessionsIn(users, r)) \cap Open :
               Times(n, "newMessage", c) = 1

\* C3: an accepted join delivers 'joined' to the joiner alone, with the whole
\* log of the room (its last entry the joiner's own join message) and with
\* exactly the sessions of the room's current members as users.
C3_JoinedSnapshot ==
  \A s \in Open, u \in UsernameInputs, r \in RoomInputs :
    LET n == JoinStep(s, u, r)
    IN  Emitted(n, "joined") =>
          /\ \A c \in Conns : Times(n, "joined", c) = (IF c = s THEN 1 ELSE 0)
          /\ LET d == n.out[1].data
             IN  /\ d.messages = n.messages[r]
                 /\ d.messages[Len(d.messages)].text = u \o JoinedSuffix
                 /\ \A i \in 1..Len(d.users) :
                      /\ d.users[i] # UndefinedValue
                      /\ d.users[i].room = r
                 /\ {d.users[i] : i \in 1..Len(d.users)}
                      = {n.users[c] : c \in SessionsIn(n.users, r)}

\* C4: an accepted join into room R delivers userJoined exactly once to every
\* other member of R, to no connection outside R and never to the joiner.
C4_UserJoinedToOtherMembersOnly ==
  \A s \in Open, u \in UsernameInputs, r \in RoomInputs :
    LET n == JoinStep(s, u, r)
    IN  Emitted(n, "joined") =>
          \A c \in Conns :
            Times(n, "userJoined", c)
              = (IF c # s /\ c \in SessionsIn(n.users, r) THEN 1 ELSE 0)

\* C5: after any sequence of operations every connection is in the member
\* set of at most one room (a join by a connection that has a session is
\* rejected or leaves the previous room first).
C5_AtMostOneRoom ==
  \A s \in Conns :
    Cardinality({r \in DOMAIN rooms : s \in MembersOf(rooms, r)}) <= 1

\* The disconnect entries of socket s in the observer's history.
Departures(s) ==
  {e \in UNION {{<<r, i>> : i \in DOMAIN history[r]} : r \in RoomNames} :
     /\ history[e[1]][e[2]].op = "disconnect"
     /\ history[e[1]][e[2]].by = s}

\* C6: disconnect is idempotent.  The first disconnect of a connection with a
\* session emits one userLeft and appends one entry; afterwards the
\* connection has no session and cannot get one, and a disconnect of a
\* connection without a session changes nothing and emits nothing, so over a
\* whole behaviour a connection accounts for at most one leave entry.
C6_DisconnectIdempotent ==
  \A s \in Conns :
    LET n == DisconnectStep(s)
    IN  /\ ~Has(n.users, s)
        /\ n.sockets[s] = "closed"
        /\ sockets[s] = "closed" => ~Has(users, s)
        /\ Has(users, s) =>
             /\ Len(n.out) = 1 /\ n.out[1].type = "userLeft"
             /\ TotalLog(n.messages) = TotalLog(messages) + 1
        /\ ~Has(users, s) => n.out = <<>> /\ Same(n)
        /\ Cardinality(Departures(s)) <= 1

\* A connection that had a session has been disconnected: its one leave entry
\* is in the log and a further disconnect of it does nothing.
C6_Witness ==
  \E s \in Conns :
    /\ sockets[s] = "closed"
    /\ Cardinality(Departures(s)) = 1
    /\ DisconnectStep(s).out = <<>>
    /\ DisconnectStep(s).messages = messages

\* C7: disconnect of a connection with a session removes the session and the
\* connection's entry in its room's member set, appends the one system
\* message '<username> has left the room' to that room's log and delivers
\* userLeft to every remaining (connected) member of the room, never to the
\* disconnecting connection; without a session it changes and delivers nothing.
C7_DisconnectEffect ==
  \A s \in Conns :
    LET n == DisconnectStep(s)
    IN  IF Has(users, s)
        THEN LET room == users[s].room
             IN  /\ n.users = [c \in DOMAIN users \ {s} |-> users[c]]
                 /\ DOMAIN n.rooms = DOMAIN rooms
                 /\ MembersOf(n.rooms, room) = MembersOf(rooms, room) \ {s}
                 /\ \A r \in DOMAIN rooms \ {room} : n.rooms[r] = rooms[r]
                 /\ DOMAIN n.messages = DOMAIN messages
                 /\ \A r \in DOMAIN messages \ {room} :
                      n.messages[r] = messages[r]
                 /\ Len(n.messages[room]) = Len(messages[room]) + 1
                 /\ SubSeq(n.messages[room], 1, Len(messages[room]))
                      = messages[room]
                 /\ View(n.messages[room][Len(n.messages[room])])
                      = [author |-> SystemName,
                         text |-> users[s].username \o LeftSuffix,
                         type |-> "system"]
                 /\ \A c \in ((MembersOf(n.rooms, room)
                                 \cup SessionsIn(n.users, room)) \cap Open) \ {s} :
                      Times(n, "userLeft", c) = 1
                 /\ s \notin Reached(n)
        ELSE Same(n) /\ n.out = <<>>

\* A member of a room that another connected member shares is disconnected.
C7_Witness ==
  \E s \in Conns, c \in Open :
    /\ c # s
    /\ Has(users, c)
    /\ sockets[s] = "closed"
    /\ \E i \in 1..Len(history[users[c].room]) :
         /\ history[users[c].room][i].op = "disconnect"
         /\ history[users[c].room][i].by = s
    /\ \E i \in 1..Len(history[users[c].room]) :
         /\ history[users[c].room][i].op = "join"
         /\ history[users[c].room][i].by = c
         /\ i < Len(history[users[c].room])

\* C8: a join without a username, without a room or with a username of more
\* than 20 characters emits one error, to the joiner alone, and leaves the
\* registry, the member sets and the logs as they were (no room is created);
\* a join with a room and a username of exactly 20 characters succeeds.
C8_JoinValidation ==
  \A s \in Open, u \in UsernameInputs, r \in RoomInputs :
    LET n == JoinStep(s, u, r)
    IN  /\ (Falsy(u) \/ Falsy(r) \/ StrLen(u) > MAX_USERNAME_LENGTH) =>
             ErrorOnlyTo(n, s) /\ Same(n) /\ n.adapter = adapter
        /\ (~Falsy(u) /\ ~Falsy(r) /\ StrLen(u) = MAX_USERNAME_LENGTH) =>
             /\ Times(n, "joined", s) = 1
             /\ ~Emitted(n, "error")
             /\ Has(n.users, s)
             /\ n.users[s].username = u
             /\ n.users[s].room = r
             /\ s \in MembersOf(n.rooms, r)

\* A join with a 20-character username has been accepted, and a join with a
\* 21-character username into a room that does not exist yet is refused
\* without creating the room.
C8_Witness ==
  \E s \in Open, c \in DOMAIN users :
    /\ StrLen(users[c].username) = MAX_USERNAME_LENGTH
    /\ ~Has(rooms, Room2)
    /\ ErrorOnlyTo(JoinStep(s, Name21, Room2), s)
    /\ ~Has(JoinStep(s, Name21, Room2).rooms, Room2)

\* The last entry of a log.
Last(log) == log[Len(log)]

\* C9: for a joined connection sending to its own room, a text without
\* surrounding whitespace of length exactly 1000 is appended and broadcast,
\* and one of length 1001 is refused as too long, with no change.
C9_LengthBoundary ==
  \A s \in Open \cap DOMAIN users, m \in MessageInputs \ {Undefined} :
    LET room == users[s].room
        n == ChatMessageStep(s, m, room)
    IN  Trim(m) = m =>
          /\ StrLen(m) = MAX_MESSAGE_LENGTH =>
               /\ Len(n.messages[room]) = Len(messages[room]) + 1
               /\ View(Last(n.messages[room]))
                    = [author |-> users[s].username, text |-> m,
                       type |-> "message"]
               /\ Len(n.out) = 1
               /\ n.out[1].type = "newMessage"
               /\ n.out[1].data = Last(n.messages[room])
               /\ s \in n.out[1].to
          /\ StrLen(m) = MAX_MESSAGE_LENGTH + 1 =>
               /\ ErrorOnlyTo(n, s)
               /\ n.out[1].data.message = ErrTooLong
               /\ Same(n)

\* A 1000-character message is in the log of its sender's room, and the
\* sender is still there to send the 1001-character one.
C9_Witness ==
  \E s \in Open \cap DOMAIN users :
    /\ \E i \in 1..Len(messages[users[s].room]) :
         /\ messages[users[s].room][i].type = "message"
         /\ messages[users[s].room][i].user.id = users[s].id
         /\ StrLen(messages[users[s].room][i].text) = MAX_MESSAGE_LENGTH
    /\ ErrorOnlyTo(ChatMessageStep(s, Text1001, users[s].room), s)

\* C10: for a joined connection sending to its own room, a send is accepted
\* exactly when the trimmed text is non-empty and at most 1000 characters
\* long, and is otherwise refused as empty or too long with no change.
C10_ValidatesTrimmedText ==
  \A s \in Open \cap DOMAIN users, m \in MessageInputs :
    LET n == ChatMessageStep(s, m, users[s].room)
        ok == /\ m # Undefined
              /\ Trim(m) # EmptyStr
              /\ StrLen(Trim(m)) <= MAX_MESSAGE_LENGTH
    IN  /\ (Appended(n) /\ Emitted(n, "newMessage")) <=> ok
        /\ ~ok => /\ ErrorOnlyTo(n, s)
                  /\ n.out[1].data.message \in {ErrEmpty, ErrTooLong}
                  /\ Same(n)

\* The run n changed nothing at all but for the events it emitted.
Untouched(n) == Same(n) /\ n.adapter = adapter /\ n.sockets = sockets

\* The message of the one error event of the run n.
ErrorText(n) == n.out[1].data.message

\* C11: every error outcome of join or send (missing input, username too
\* long, no session, empty message, message too long, failed push) is one
\* error event to the originating connection and to no other, and leaves the
\* registry, the member sets and the logs as they were.
C11_ErrorsStayWithOriginator ==
  /\ \A s \in Open, u \in UsernameInputs, r \in RoomInputs :
       LET n == JoinStep(s, u, r)
       IN  /\ Emitted(n, "error") => ErrorOnlyTo(n, s) /\ Untouched(n)
           /\ Emitted(n, "error") <=> ~Emitted(n, "joined")
  /\ \A s \in Open, m \in MessageInputs, r \in RoomInputs :
       LET n == ChatMessageStep(s, m, r)
       IN  /\ Emitted(n, "error") => ErrorOnlyTo(n, s) /\ Untouched(n)
           /\ Emitted(n, "error") <=> ~Emitted(n, "newMessage")
           /\ ~Has(users, s) => Emitted(n, "error") /\ ErrorText(n) = ErrNoUser
           /\ (Has(users, s) /\ Falsy(m)) =>
                Emitted(n, "error") /\ ErrorText(n) = ErrEmpty
           /\ (Has(users, s) /\ m = Text1001) =>
                Emitted(n, "error") /\ ErrorText(n) = ErrTooLong
           /\ (Has(users, s) /\ m = TextHi /\ ~Has(messages, r)) =>
                Emitted(n, "error") /\ ErrorText(n) = ErrSendFailed

\* Two connections share a room, a third has no session, and each kind of
\* error of send arises: no session, empty, too long, failed push.
C11_Witness ==
  \E s \in Open, c \in Open, d \in Open :
    /\ s # c
    /\ Has(users, s) /\ Has(users, c) /\ ~Has(users, d)
    /\ users[s].room = users[c].room
    /\ ~Has(messages, Room2)
    /\ ErrorText(ChatMessageStep(d, TextHi, Room1)) = ErrNoUser
    /\ ErrorText(ChatMessageStep(s, TextBlank, Room1)) = ErrEmpty
    /\ ErrorText(ChatMessageStep(s, Text1001, Room1)) = ErrTooLong
    /\ ErrorText(ChatMessageStep(s, TextHi, Room2)) = ErrSendFailed
    /\ ErrorText(JoinStep(s, Name21, Room2)) = ErrNameTooLong

\* C12: typing changes neither the registry nor a member set nor a log; from
\* a connection with a session it delivers userTyping to every other
\* (connected) member of the named room and never to the sender, and from a
\* connection without a session it delivers nothing, not even an error.
C12_TypingIsTransient ==
  \A s \in Open, r \in RoomInputs, b \in BOOLEAN :
    LET n == TypingStep(s, r, b)
    IN  /\ Untouched(n)
        /\ n.nextId = nextId
        /\ s \notin Reached(n)
        /\ IF Has(users, s)
           THEN /\ Len(n.out) = 1
                /\ n.out[1].type = "userTyping"
                /\ n.out[1].data.isTyping = b
                /\ \A c \in ((MembersOf(rooms, r) \cup SessionsIn(users, r))
                               \cap Open) \ {s} :
                     Times(n, "userTyping", c) = 1
           ELSE n.out = <<>>

\* Two connected members of one room, so that the typing of one reaches the
\* other, and a connection without a session.
C12_Witness ==
  \E s \in Open, c \in Open, d \in Open :
    /\ s # c
    /\ Has(users, s) /\ Has(users, c) /\ ~Has(users, d)
    /\ users[s].room = users[c].room
    /\ Times(TypingStep(s, users[s].room, TRUE), "userTyping", c) = 1
    /\ TypingStep(d, users[s].room, TRUE).out = <<>>
    /\ TotalLog(messages) >= 2

\* C13: the room of every session is in the directory with both a member set
\* and a log, and the rooms that have a member set are the rooms that have a
\* log; so neither an accepted join nor a disconnect finds a log missing.
C13_SessionRoomExists ==
  /\ DOMAIN rooms = DOMAIN messages
  /\ \A s \in DOMAIN users :
       Has(rooms, users[s].room) /\ Has(messages, users[s].room)
  /\ \A s \in Open, u \in UsernameInputs, r \in RoomInputs :
       LET n == JoinStep(s, u, r)
       IN  /\ DOMAIN n.rooms = DOMAIN n.messages
           /\ Emitted(n, "joined") => Has(n.rooms, r) /\ Has(n.messages, r)

\* A room whose every member has left stays in the directory beside the room
\* of a live session.
C13_Witness ==
  \E s \in DOMAIN users, r \in DOMAIN rooms :
    /\ rooms[r] = <<>>
    /\ users[s].room # r
    /\ Len(messages[r]) >= 2

\* C14: the display name of every session is trimmed, not empty and at most
\* 20 characters long; a username of blanks only, or one with blanks around
\* it, never becomes the display name of a session.
C14_DisplayNameTrimmed ==
  \A s \in DOMAIN users :
    /\ users[s].username # EmptyStr
    /\ Trim(users[s].username) = users[s].username
    /\ StrLen(users[s].username) >= 1
    /\ StrLen(users[s].username) <= MAX_USERNAME_LENGTH

IsPrefix(a, b) == Len(a) <= Len(b) /\ SubSeq(b, 1, Len(a)) = a

\* C15: rooms and logs are permanent and logs are append-only: a room that
\* has a member set or a log has it in the next state too, also when its last
\* member disconnects, and every log is a prefix of itself in the next state.
C15_LogsAppendOnly ==
  [][/\ DOMAIN rooms \subseteq DOMAIN rooms'
     /\ DOMAIN messages \subseteq DOMAIN messages'
     /\ \A r \in DOMAIN messages : IsPrefix(messages[r], messages'[r])]_vars

\* A room that its only member has left after a join and a send: the room is
\* still there, empty, with the three entries in its log.
C15_Witness ==
  \E r \in DOMAIN rooms :
    /\ rooms[r] = <<>>
    /\ Len(messages[r]) = 3
    /\ messages[r][2].type = "message"
    /\ messages[r][3].text = messages[r][2].user.username \o LeftSuffix

\* The body of the one response of the run n.
Body(n) == n.out[1].data.body

\* C16: the message query for a room that was never created answers with
\* success and an empty sequence, not with an error, and changes no state: it
\* does not create the room, which is therefore absent from a room listing
\* made after it.
C16_QueryOfUnknownRoom ==
  \A room \in RoomNames :
    LET n == GetRoomMessagesStep(room)
    IN  /\ Untouched(n)
        /\ n.nextId = nextId
        /\ (~Has(rooms, room) /\ ~Has(messages, room)) =>
             /\ Len(n.out) = 1
             /\ n.out[1].data.status = 200
             /\ Body(n).success
             /\ Body(n).messages = <<>>
             /\ ~Has(n.rooms, room) /\ ~Has(n.messages, room)
             /\ \A e \in RoomList(n.rooms) : e.name # room

\* One room exists with a log and is listed, the other was never created and
\* its query answers with the empty sequence.
C16_Witness ==
  /\ Has(messages, Room1) /\ Len(messages[Room1]) >= 2
  /\ ~Has(messages, Room2) /\ ~Has(rooms, Room2)
  /\ Body(GetRoomMessagesStep(Room2)).messages = <<>>
  /\ Body(GetRoomMessagesStep(Room1)).messages = messages[Room1]
  /\ {e.name : e \in Body(GetRoomsStep).rooms} = {Room1}

\* The socket c was accepted into the room at some time.
JoinedRoom(c, room) ==
  \E i \in DOMAIN history[room] :
    history[room][i].op = "join" /\ history[room][i].by = c

\* C17: a join mutates the stores and resolves its recipients in one step, so
\* of two connections that join the same room and do not disconnect each
\* learns of the other: the join accepted second has the session of the other
\* in the users list of its 'joined' event, and the other gets exactly one
\* userJoined for it.
C17_JoinersLearnOfEachOther ==
  \A s \in Open, u \in UsernameInputs, r \in RoomNames :
    LET n == JoinStep(s, u, r)
        list == n.out[1].data.users
    IN  Emitted(n, "joined") =>
          \A c \in Open \ {s} :
            JoinedRoom(c, r) =>
              /\ Has(n.users, c)
              /\ \E i \in 1..Len(list) : list[i] = n.users[c]
              /\ \E i \in 1..Len(list) : list[i] = n.users[s]
              /\ Times(n, "userJoined", c) = 1
              /\ Times(n, "userJoined", s) = 0

\* Two connected sockets have joined the same room one after the other, and a
\* third joins it next.
C17_Witness ==
  \E r \in RoomNames, a \in Open, b \in Open, c \in Open :
    /\ a # b /\ a # c /\ b # c
    /\ JoinedRoom(a, r) /\ JoinedRoom(b, r) /\ ~JoinedRoom(c, r)
    /\ MembersOf(rooms, r) = {a, b}
    /\ Times(JoinStep(c, Name20, r), "userJoined", a) = 1
    /\ Times(JoinStep(c, Name20, r), "userJoined", b) = 1

\* The message passes the checks of the send handler.
ValidMessage(m) == ~Falsy(m) /\ Trim(m) # EmptyStr /\ ~MessageTooLong(m)

\* C18: a send from a connection with a session that names a room never
\* created fails with an error to the sender alone: it does not create the
\* room, appends to no log and delivers newMessage to nobody.
C18_SendToUnknownRoomFails ==
  \A s \in Open \cap DOMAIN users, m \in MessageInputs, r \in RoomInputs :
    (~Has(rooms, r) /\ ~Has(messages, r)) =>
      LET n == ChatMessageStep(s, m, r)
      IN  /\ ErrorOnlyTo(n, s)
          /\ Reached(n) = {s}
          /\ ~Emitted(n, "newMessage")
          /\ Untouched(n)
          /\ ~Has(n.rooms, r) /\ ~Has(n.messages, r)
          /\ ValidMessage(m) => ErrorText(n) = ErrSendFailed

\* Two connected members of the first room while the second room was never
\* created; a valid send of one of them to the second room fails.
C18_Witness ==
  \E s \in Open, c \in Open :
    /\ s # c
    /\ SessionsIn(users, Room1) = {s, c}
    /\ ~Has(rooms, Room2) /\ ~Has(messages, Room2)
    /\ \E m \in MessageInputs :
         /\ ValidMessage(m)
         /\ ErrorText(ChatMessageStep(s, m, Room2)) = ErrSendFailed
         /\ Emitted(ChatMessageStep(s, m, Room1), "newMessage")

\* C19: a chat message gets into the log of a room only while its author has
\* a session of that room: no connection places a chat message into the log
\* of a room it has not joined.
C19_AuthorJoinedTheRoom ==
  \A s \in Open, m \in MessageInputs, r \in RoomInputs :
    Appended(ChatMessageStep(s, m, r)) => Has(users, s) /\ JoinedRoom(s, r)

\* C20: the member set of every room is the set of the connections that have
\* a session of that room, and the member count of the room listing is the
\* number of those sessions.
C20_MembersAreSessions ==
  /\ \A r \in DOMAIN rooms : MembersOf(rooms, r) = SessionsIn(users, r)
  /\ \A e \in Body(GetRoomsStep).rooms :
       e.userCount = Cardinality(SessionsIn(users, e.name))

====
